---- MODULE Spec2Model ----
(***************************************************************************)
(* State-machine model of ender-view (src/index.ts): the transition group  *)
(* manager returned by createEnderView, the CSS generator behind it, and   *)
(* the animate trigger with its fallback for platforms without view        *)
(* transitions.                                                            *)
(***************************************************************************)
EXTENDS Integers, Sequences, FiniteSets, TLC

(***************************************************************************)
(* JavaScript values.  Every value is a tagged tuple so that values of     *)
(* different JavaScript types can be compared.  Absent marks an own        *)
(* property that the object does not have; Undefined is the value          *)
(* `undefined`, which a present property may hold.                         *)
(***************************************************************************)
Absent == <<"absent">>
Undefined == <<"undefined">>
Num(n) == <<"number", n>>
Str(s) == <<"string", s>>
Obj(o) == <<"object", o>>

\* The fields of EnderViewOptions and of EnderViewAnimationProperties.
OptionKeys ==
  {"easing", "duration", "delay", "viewTransitionName",
   "leaveProps", "enterProps", "leaveCss", "enterCss"}
AnimationKeys == {"easing", "duration", "delay", "animationName"}

\* An object literal with no own property (also what spreading `undefined` gives).
NoOptions == [k \in OptionKeys |-> Absent]
NoProps == [k \in AnimationKeys |-> Absent]

\* o.k : reading a property the object does not have gives undefined.
Get(o, k) == IF o[k] = Absent THEN Undefined ELSE o[k]
\* v?.k : undefined when v is undefined, else the property read.
OptGet(v, k) == IF v[1] = "object" THEN Get(v[2], k) ELSE Undefined
\* A test for undefined only, which lets 0 and '' through.
TruthyUnlessUndefined(v) == v # Undefined
\* ToBoolean(v): 0, '' and undefined are falsy; any object is truthy.
Truthy(v) ==
  CASE v[1] = "number" -> v[2] # 0
    [] v[1] = "string" -> v[2] # ""
    [] v[1] = "object" -> TRUE
    [] OTHER -> FALSE
\* `${v}` : the text a template literal puts for v.
TemplateString(v) ==
  CASE v[1] = "number" -> ToString(v[2])
    [] v[1] = "string" -> v[2]
    [] v[1] = "object" -> "[object Object]"
    [] OTHER -> "undefined"
\* a ?? b
Coalesce(a, b) == IF a = Undefined THEN b ELSE a
\* { ...a, ...b } : every own property of b, present with any value, replaces a's.
Spread(a, b) == [k \in OptionKeys |-> IF b[k] # Absent THEN b[k] ELSE a[k]]

\* The defaults getOptions spreads the caller's options over.
DefaultEasing == "ease-in-out"
DefaultDelay == 0
DefaultDuration == 200
Defaults ==
  [k \in OptionKeys |->
     CASE k = "easing" -> Str(DefaultEasing)
       [] k = "delay" -> Num(DefaultDelay)
       [] k = "duration" -> Num(DefaultDuration)
       [] OTHER -> Absent]

\* getOptions(options) = { easing, delay, duration, ...options }
getOptions(o) == Spread(Defaults, o)

(***************************************************************************)
(* The generated CSS, as the sequence of its blocks.  A block is its       *)
(* prelude (the text before the brace) and the sequence of its             *)
(* declarations <<property, value text>>; a keyframes block holds one      *)
(* keyframe <<"from" | "to", the literal fragment>>.                       *)
(***************************************************************************)
Block(prelude, declarations) ==
  [prelude |-> prelude, declarations |-> declarations]

\* ${cond ? `property: ${value}${unit};` : ''}
DeclarationIf(cond, property, text) ==
  IF cond THEN << <<property, text>> >> ELSE << >>

EnterName(viewTransitionId) == viewTransitionId \o "-enter"
LeaveName(viewTransitionId) == viewTransitionId \o "-leave"

\* The declarations of the ::view-transition-new / -old rule.
AnimationDeclarations(props, fallbackName) ==
  << <<"animation-name",
       TemplateString(Coalesce(OptGet(props, "animationName"), Str(fallbackName)))>> >>
  \o DeclarationIf(Truthy(OptGet(props, "delay")), "animation-delay",
                   TemplateString(OptGet(props, "delay")) \o "ms")
  \o DeclarationIf(Truthy(OptGet(props, "duration")), "animation-duration",
                   TemplateString(OptGet(props, "duration")) \o "ms")
  \o DeclarationIf(Truthy(OptGet(props, "easing")), "animation-timing-function",
                   TemplateString(OptGet(props, "easing")))

NewSelector(viewTransitionId) ==
  "::view-transition-new(." \o viewTransitionId \o "):only-child"
OldSelector(viewTransitionId) ==
  "::view-transition-old(." \o viewTransitionId \o "):only-child"
GroupSelector(viewTransitionId) ==
  "::view-transition-group(." \o viewTransitionId \o ")"

\* The ::view-transition-group rule: the three declarations are unconditional.
GroupDeclarations(o) ==
  << <<"animation-delay", TemplateString(Get(o, "delay")) \o "ms">>,
     <<"animation-duration", TemplateString(Get(o, "duration")) \o "ms">>,
     <<"animation-timing-function", TemplateString(Get(o, "easing"))>> >>

\* ${css ? `@keyframes ${name} { step { ${css} } }` : ''}
Keyframes(css, name, step) ==
  IF Truthy(css)
    THEN << Block("@keyframes " \o name, << <<step, TemplateString(css)>> >>) >>
    ELSE << >>

createTransitionCss(viewTransitionId, o) ==
  << Block(NewSelector(viewTransitionId),
           AnimationDeclarations(Get(o, "enterProps"), EnterName(viewTransitionId))),
     Block(OldSelector(viewTransitionId),
           AnimationDeclarations(Get(o, "leaveProps"), LeaveName(viewTransitionId))),
     Block(GroupSelector(viewTransitionId), GroupDeclarations(o)) >>
  \o Keyframes(Get(o, "enterCss"), EnterName(viewTransitionId), "from")
  \o Keyframes(Get(o, "leaveCss"), LeaveName(viewTransitionId), "to")

(***************************************************************************)
(* Bounds of the model and the inputs the operations draw from.            *)
(***************************************************************************)
\* createEnderView is called at most MaxGroups times.
MaxGroups == 2
\* document.adoptedStyleSheets holds at most MaxAdopted entries.
MaxAdopted == 2

\* The elements of the document.
Elements == {"e1", "e2"}

\* $(selector): the ordered list of elements bianco.query resolves a target to;
\* a selector nothing matches gives the empty list.
Selectors == {".missing", "#e1", "li"}
Query(selector) ==
  CASE selector = "#e1" -> <<"e1">>
    [] selector = "li" -> <<"e1", "e2">>
    [] OTHER -> << >>

\* Options records callers pass to createEnderView (an omitted argument spreads as {}).
HeroOptions ==
  [NoOptions EXCEPT !["duration"] = Num(300), !["viewTransitionName"] = Str("hero")]
CreateOptions == {NoOptions, HeroOptions}
\* Partial records callers pass to updateOptions.
DelayPartial == [NoOptions EXCEPT !["delay"] = Num(100)]
DurationPartial ==
  [NoOptions EXCEPT !["duration"] = Num(500), !["viewTransitionName"] = Str("renamed")]
UpdatePartials == {DelayPartial, DurationPartial}

Range(seq) == {seq[i] : i \in 1..Len(seq)}
Occurrences(seq, v) == Cardinality({i \in 1..Len(seq) : seq[i] = v})

(***************************************************************************)
(* State.                                                                  *)
(***************************************************************************)
VARIABLES
  id,                  \* the counter closed over by createUniqueViewTrasitionId
  viewTransitionId,    \* per handle: the identifier generated at construction
  options,             \* per handle: the options argument of createEnderView
  els,                 \* per handle: the Set of managed elements
  styleSheet,          \* per handle: the rules of the manager's CSSStyleSheet
  adoptedStyleSheets,  \* document.adoptedStyleSheets, a list of handles' sheets
  style,               \* per element: el.style's two managed properties
  newOptions,          \* per handle: the argument of the latest updateOptions call
  last,                \* the latest call made on a handle
  cssOptions,          \* CSS generation alone: the construction options
  cssPartial,          \* CSS generation alone: the partial given to updateOptions
  cssText,             \* CSS generation alone: the generated rules, << >> before
  platform,            \* animate: whether `document` and its startViewTransition exist
  dom,                 \* animate: the DOM updates run so far, in order
  platformCalls,       \* animate: the arguments document.startViewTransition received
  transitions,         \* animate: the ViewTransition objects animate returned
  lastAnimate          \* animate: the latest step and the state before it

managerVars ==
  <<id, viewTransitionId, options, els, styleSheet, adoptedStyleSheets, style,
    newOptions, last>>
cssVars == <<cssOptions, cssPartial, cssText>>
animateVars == <<platform, dom, platformCalls, transitions, lastAnimate>>

vars == <<managerVars, cssVars, animateVars>>

Handles == 1..Len(viewTransitionId)

\* An element's inline style with neither property set, and one the page set itself.
EmptyStyle == [viewTransitionClass |-> "", viewTransitionName |-> ""]
CallerStyle == [viewTransitionClass |-> "page-class", viewTransitionName |-> "page-name"]
\* The document at load: e2 carries inline values the page wrote, e1 none.
InitialStyle == [el \in Elements |-> IF el = "e2" THEN CallerStyle ELSE EmptyStyle]

\* A call record: the operation, the handle it was called on, the elements it was
\* applied to, the partial it was given, and, for the calls whose effect is stated
\* against the state before them, the partial it replaced (updateOptions) and the
\* number of times the group's sheet was adopted (cleanup).
Call(op, h, targets, partial, replaced, copies) ==
  [op |-> op, h |-> h, targets |-> targets, newOptions |-> partial,
   replaced |-> replaced, copies |-> copies]

NoCall == Call("none", 0, {}, NoOptions, NoOptions, 0)

(***************************************************************************)
(* Helpers of createEnderView.                                             *)
(***************************************************************************)
\* The counter re-initialised on every call instead of closed over once.
NextIdRestarted(n) == 0 + 1
\* id += 1
NextId(n) == n + 1
\* `ender-view-transition-id-${id}`
createUniqueViewTrasitionId(n) == "ender-view-transition-id-" \o ToString(n)

\* Object.assign(el.style, { viewTransitionClass, viewTransitionName ?? 'match-element' })
applyViewTransitionStyles(s, el, viewTransitionName, viewTransitionClass) ==
  [s EXCEPT ![el] =
     [viewTransitionClass |-> TemplateString(viewTransitionClass),
      viewTransitionName |->
        TemplateString(Coalesce(viewTransitionName, Str("match-element")))]]

\* mergedOptions = getOptions(options), fixed at construction.
mergedOptions(o) == getOptions(o)

\* The identifier written as the transition-name too.
addInlineStyleToElNamedById(s, el, o, vid) ==
  applyViewTransitionStyles(s, el, Str(vid), Str(vid))

\* mergedOptions reassigned by updateOptions: the name comes from the latest partial.
addInlineStyleToElWithLatestOptions(s, el, o, vid) ==
  LET constructed == {h \in 1..Len(viewTransitionId) : viewTransitionId[h] = vid}
      latest ==
        IF constructed = {} THEN o
        ELSE Spread(o, newOptions[CHOOSE h \in constructed : TRUE])
  IN applyViewTransitionStyles(s, el, Get(getOptions(latest), "viewTransitionName"), Str(vid))

addInlineStyleToEl(s, el, o, vid) ==
  applyViewTransitionStyles(s, el, Get(mergedOptions(o), "viewTransitionName"), Str(vid))

removeInlineStyleFromEl(s, el) ==
  applyViewTransitionStyles(s, el, Str(""), Str(""))

\* styleSheetManager.add(css): if (css) styleSheet.replaceSync(css)
ReplaceSync(rules, css) == IF css # << >> THEN css ELSE rules
\* styleSheetManager.add(css): document.adoptedStyleSheets.push(styleSheet)
AdoptSheet(sheets, h) == Append(sheets, h)
\* Only the first occurrence spliced out of the list.
RemoveSheetFirstOnly(sheets, h) ==
  IF \E i \in 1..Len(sheets) : sheets[i] = h
    THEN LET i == CHOOSE j \in 1..Len(sheets) :
                    sheets[j] = h /\ \A m \in 1..(j - 1) : sheets[m] # h
         IN SubSeq(sheets, 1, i - 1) \o SubSeq(sheets, i + 1, Len(sheets))
    ELSE sheets
\* styleSheetManager.remove(): adoptedStyleSheets.filter((s) => s !== styleSheet)
RemoveSheet(sheets, h) == SelectSeq(sheets, LAMBDA s : s # h)

\* newElements.forEach(this.addElement), the inline styles
RECURSIVE addElementsStyle(_, _, _, _)
addElementsStyle(s, list, o, vid) ==
  IF list = << >> THEN s
  ELSE addElementsStyle(addInlineStyleToEl(s, Head(list), o, vid), Tail(list), o, vid)

\* newElements.forEach(this.removeElement), the inline styles
RECURSIVE removeElementsStyle(_, _)
removeElementsStyle(s, list) ==
  IF list = << >> THEN s
  ELSE removeElementsStyle(removeInlineStyleFromEl(s, Head(list)), Tail(list))

\* els.forEach(removeInlineStyleFromEl)
cleanupStyle(s, members) ==
  [el \in Elements |-> IF el \in members THEN removeInlineStyleFromEl(s, el)[el] ELSE s[el]]

\* The two spreads in the opposite order: the construction options win.
updatedOptionsBaseWins(o, partial) == getOptions(Spread(partial, o))
\* getOptions({ ...options, ...newOptions })
updatedOptions(o, partial) == getOptions(Spread(o, partial))

\* A step of the animate model: what ran, on which argument or transition, and
\* the DOM, the platform calls and the returned objects before it.
Step(op, arg, index) ==
  [op |-> op, arg |-> arg, index |-> index,
   before |-> [dom |-> dom, platformCalls |-> platformCalls, transitions |-> transitions]]
NoStep ==
  [op |-> "none", arg |-> [kind |-> "", update |-> ""], index |-> 0,
   before |-> [dom |-> << >>, platformCalls |-> << >>, transitions |-> << >>]]

(***************************************************************************)
(* The operations.                                                         *)
(***************************************************************************)
ManagerInit ==
  /\ id = 0
  /\ viewTransitionId = << >>
  /\ options = << >>
  /\ els = << >>
  /\ styleSheet = << >>
  /\ adoptedStyleSheets = << >>
  /\ style = InitialStyle
  /\ newOptions = << >>
  /\ last = NoCall

\* No CSS generated outside a group, no animate call made.
CssIdle ==
  /\ cssOptions = NoOptions
  /\ cssPartial = NoOptions
  /\ cssText = << >>
AnimateIdle ==
  /\ platform = [document |-> TRUE, startViewTransition |-> TRUE]
  /\ dom = << >>
  /\ platformCalls = << >>
  /\ transitions = << >>
  /\ lastAnimate = NoStep

Init == ManagerInit /\ CssIdle /\ AnimateIdle

\* createEnderView(selector, o)
CreateEnderView(selector, o) ==
  LET h == Len(viewTransitionId) + 1
      vid == createUniqueViewTrasitionId(NextId(id))
  IN /\ Len(viewTransitionId) < MaxGroups
     /\ Len(adoptedStyleSheets) < MaxAdopted
     /\ id' = NextId(id)
     /\ viewTransitionId' = Append(viewTransitionId, vid)
     /\ options' = Append(options, o)
     /\ styleSheet' =
          Append(styleSheet, ReplaceSync(<< >>, createTransitionCss(vid, mergedOptions(o))))
     /\ adoptedStyleSheets' = AdoptSheet(adoptedStyleSheets, h)
     /\ style' = addElementsStyle(style, Query(selector), o, vid)
     /\ els' = Append(els, Range(Query(selector)))
     /\ newOptions' = Append(newOptions, NoOptions)
     /\ last' = Call("createEnderView", h, Range(Query(selector)), NoOptions, NoOptions, 0)
     /\ UNCHANGED <<cssVars, animateVars>>

\* enderView.cleanup()
Cleanup(h) ==
  /\ style' = cleanupStyle(style, els[h])
  /\ adoptedStyleSheets' = RemoveSheet(adoptedStyleSheets, h)
  /\ els' = [els EXCEPT ![h] = {el \in els[h] : el \notin els[h]}]
  /\ last' = Call("cleanup", h, els[h], NoOptions, NoOptions,
                  Occurrences(adoptedStyleSheets, h))
  /\ UNCHANGED <<id, viewTransitionId, options, styleSheet, newOptions>>
  /\ UNCHANGED <<cssVars, animateVars>>

\* enderView.updateOptions(partial)
UpdateOptions(h, partial) ==
  /\ Len(adoptedStyleSheets) < MaxAdopted
  /\ styleSheet' =
       [styleSheet EXCEPT ![h] =
          ReplaceSync(@, createTransitionCss(viewTransitionId[h],
                                             updatedOptions(options[h], partial)))]
  /\ adoptedStyleSheets' = AdoptSheet(adoptedStyleSheets, h)
  /\ newOptions' = [newOptions EXCEPT ![h] = partial]
  /\ last' = Call("updateOptions", h, {}, partial, newOptions[h], 0)
  /\ UNCHANGED <<id, viewTransitionId, options, els, style>>
  /\ UNCHANGED <<cssVars, animateVars>>

\* enderView.addElement(el)
AddElement(h, el) ==
  /\ style' = addInlineStyleToEl(style, el, options[h], viewTransitionId[h])
  /\ els' = [els EXCEPT ![h] = @ \cup {el}]
  /\ last' = Call("addElement", h, {el}, NoOptions, NoOptions, 0)
  /\ UNCHANGED <<id, viewTransitionId, options, styleSheet, adoptedStyleSheets, newOptions>>
  /\ UNCHANGED <<cssVars, animateVars>>

\* enderView.removeElement(el)
RemoveElement(h, el) ==
  /\ style' = removeInlineStyleFromEl(style, el)
  /\ els' = [els EXCEPT ![h] = @ \ {el}]
  /\ last' = Call("removeElement", h, {el}, NoOptions, NoOptions, 0)
  /\ UNCHANGED <<id, viewTransitionId, options, styleSheet, adoptedStyleSheets, newOptions>>
  /\ UNCHANGED <<cssVars, animateVars>>

\* enderView.addElements(selector)
AddElements(h, selector) ==
  /\ style' = addElementsStyle(style, Query(selector), options[h], viewTransitionId[h])
  /\ els' = [els EXCEPT ![h] = @ \cup Range(Query(selector))]
  /\ last' = Call("addElements", h, Range(Query(selector)), NoOptions, NoOptions, 0)
  /\ UNCHANGED <<id, viewTransitionId, options, styleSheet, adoptedStyleSheets, newOptions>>
  /\ UNCHANGED <<cssVars, animateVars>>

\* enderView.removeElements(selector)
RemoveElements(h, selector) ==
  /\ style' = removeElementsStyle(style, Query(selector))
  /\ els' = [els EXCEPT ![h] = @ \ Range(Query(selector))]
  /\ last' = Call("removeElements", h, Range(Query(selector)), NoOptions, NoOptions, 0)
  /\ UNCHANGED <<id, viewTransitionId, options, styleSheet, adoptedStyleSheets, newOptions>>
  /\ UNCHANGED <<cssVars, animateVars>>

Next ==
  \/ \E selector \in Selectors, o \in CreateOptions : CreateEnderView(selector, o)
  \/ \E h \in Handles : Cleanup(h)
  \/ \E h \in Handles, partial \in UpdatePartials : UpdateOptions(h, partial)
  \/ \E h \in Handles, el \in Elements : AddElement(h, el)
  \/ \E h \in Handles, el \in Elements : RemoveElement(h, el)
  \/ \E h \in Handles, selector \in Selectors : AddElements(h, selector)
  \/ \E h \in Handles, selector \in Selectors : RemoveElements(h, selector)

Spec == Init /\ [][Next]_vars
(***************************************************************************)
(* CSS generation on its own: getOptions and createTransitionCss applied   *)
(* to the options records and partials callers may pass.                   *)
(***************************************************************************)
\* The identifier the CSS is generated for: the first group's.
CssId == createUniqueViewTrasitionId(NextId(0))

\* enterProps / leaveProps records: each sub-property missing, falsy or truthy.
AnimationProps ==
  {[k \in AnimationKeys |->
      CASE k = "delay" -> d
        [] k = "duration" -> u
        [] k = "easing" -> e
        [] OTHER -> n] :
     d \in {Absent, Num(0), Num(150)},
     u \in {Absent, Num(0), Num(400)},
     e \in {Absent, Str(""), Str("ease-in")},
     n \in {Absent, Str("fade")}}
\* One side (enter or leave) of an options record: the literal CSS fragment and
\* the sub-record, each possibly missing.
Sides ==
  {[css |-> c, props |-> q] :
     c \in {Absent, Str(""), Str("opacity: 0;")},
     q \in {Absent} \cup {Obj(r) : r \in AnimationProps}}
FewSides ==
  {[css |-> Absent, props |-> Absent],
   [css |-> Str("opacity: 0;"), props |-> Absent],
   [css |-> Str("opacity: 0;"),
    props |-> Obj([NoProps EXCEPT !["animationName"] = Str("fade"),
                                  !["duration"] = Num(400)])]}
\* The group-level fields: missing, present with undefined, or given.
Tops ==
  {[easing |-> Absent, duration |-> Absent, delay |-> Absent],
   [easing |-> Str("linear"), duration |-> Num(300), delay |-> Num(50)],
   [easing |-> Absent, duration |-> Undefined, delay |-> Absent],
   [easing |-> Undefined, duration |-> Num(300), delay |-> Undefined]}
OptionsOf(top, enter, leave) ==
  [k \in OptionKeys |->
     CASE k = "easing" -> top.easing
       [] k = "duration" -> top.duration
       [] k = "delay" -> top.delay
       [] k = "enterCss" -> enter.css
       [] k = "enterProps" -> enter.props
       [] k = "leaveCss" -> leave.css
       [] k = "leaveProps" -> leave.props
       [] OTHER -> Absent]
\* Every enter side with a few leave sides, and every leave side with a few enter sides.
CssOptionInputs ==
  {OptionsOf(t, e, l) : t \in Tops, e \in Sides, l \in FewSides}
  \cup {OptionsOf(t, e, l) : t \in Tops, e \in FewSides, l \in Sides}
CssPartialInputs ==
  {[NoOptions EXCEPT !["duration"] = Undefined],
   [NoOptions EXCEPT !["delay"] = Num(75), !["enterProps"] = Obj(NoProps)],
   [NoOptions EXCEPT !["leaveCss"] = Str("opacity: 0;"),
                     !["leaveProps"] = Obj([NoProps EXCEPT !["easing"] = Str("ease-out")])]}

InitCss ==
  /\ ManagerInit
  /\ AnimateIdle
  /\ cssOptions \in CssOptionInputs
  /\ cssPartial = NoOptions
  /\ cssText = << >>

\* updateCss(mergedOptions), the CSS createEnderView installs
GenerateAtConstruction ==
  /\ cssText = << >>
  /\ cssText' = createTransitionCss(CssId, mergedOptions(cssOptions))
  /\ UNCHANGED <<cssOptions, cssPartial, managerVars, animateVars>>

\* updateCss(getOptions({ ...options, ...newOptions })), the CSS updateOptions installs
GenerateAtUpdate(partial) ==
  /\ cssText # << >>
  /\ cssPartial = NoOptions
  /\ cssPartial' = partial
  /\ cssText' = createTransitionCss(CssId, updatedOptions(cssOptions, partial))
  /\ UNCHANGED <<cssOptions, managerVars, animateVars>>

NextCss ==
  \/ GenerateAtConstruction
  \/ \E partial \in CssPartialInputs : GenerateAtUpdate(partial)

SpecCss == InitCss /\ [][NextCss]_vars

(***************************************************************************)
(* The transition trigger, animate, and the platform behind it.            *)
(***************************************************************************)
\* animate is called at most MaxAnimations times.
MaxAnimations == 2

\* No `document` at all, a document without view transitions, a document with them.
Platforms ==
  {[document |-> FALSE, startViewTransition |-> FALSE],
   [document |-> TRUE, startViewTransition |-> FALSE],
   [document |-> TRUE, startViewTransition |-> TRUE]}

\* The arguments of animate: a callback, or an object with an update method; either
\* way a named update of the DOM.
DomUpdateFns ==
  {[kind |-> k, update |-> u] : k \in {"function", "object"}, u \in {"swap", "append"}}

\* A feature test that forgets document.startViewTransition.
isViewTransitionSupportedDocumentOnly == platform.document
\* typeof document !== 'undefined' && !!document.startViewTransition
isViewTransitionSupported == platform.document /\ platform.startViewTransition

\* if (typeof domUpdateFn === 'function') domUpdateFn() else domUpdateFn?.update()
callDomUpdate(d, fn) ==
  IF fn.kind = "function" THEN Append(d, fn.update)
  ELSE IF fn.kind = "object" THEN Append(d, fn.update)
  ELSE d

\* The object animate builds without the platform, and the platform's own.
MockTransition ==
  [live |-> FALSE, types |-> {}, finished |-> "resolved", ready |-> "resolved",
   updateCallbackDone |-> "resolved"]
LiveTransition ==
  [live |-> TRUE, types |-> {}, finished |-> "pending", ready |-> "pending",
   updateCallbackDone |-> "pending"]

InitAnimate ==
  /\ ManagerInit
  /\ CssIdle
  /\ platform \in Platforms
  /\ dom = << >>
  /\ platformCalls = << >>
  /\ transitions = << >>
  /\ lastAnimate = NoStep

\* animate(fn)
Animate(fn) ==
  /\ Len(transitions) < MaxAnimations
  /\ IF isViewTransitionSupported
       THEN /\ platformCalls' = Append(platformCalls, fn)
            /\ transitions' = Append(transitions, LiveTransition)
            /\ dom' = dom
       ELSE /\ dom' = callDomUpdate(dom, fn)
            /\ transitions' = Append(transitions, MockTransition)
            /\ platformCalls' = platformCalls
  /\ lastAnimate' = Step("animate", fn, Len(transitions) + 1)
  /\ UNCHANGED <<platform, managerVars, cssVars>>

\* transition.skipTransition() on a returned object: () => {} on the mock; on the
\* platform's object the ready signal rejects unless the transition got that far.
SkipTransition(i) ==
  /\ transitions' =
       IF transitions[i].live /\ transitions[i].ready = "pending"
         THEN [transitions EXCEPT ![i].ready = "rejected"]
         ELSE transitions
  /\ lastAnimate' = Step("skipTransition", NoStep.arg, i)
  /\ UNCHANGED <<platform, dom, platformCalls, managerVars, cssVars>>

\* The platform runs the update callback of the oldest transition still waiting.
PlatformUpdate(i) ==
  /\ transitions[i].live
  /\ transitions[i].updateCallbackDone = "pending"
  /\ \A j \in 1..(i - 1) : transitions[j].updateCallbackDone # "pending"
  /\ dom' = Append(dom, platformCalls[i].update)
  /\ transitions' = [transitions EXCEPT ![i].updateCallbackDone = "resolved"]
  /\ lastAnimate' = Step("platformUpdate", platformCalls[i], i)
  /\ UNCHANGED <<platform, platformCalls, managerVars, cssVars>>

\* The platform settles the ready and then the finished signal of a transition.
PlatformSettle(i) ==
  /\ transitions[i].live
  /\ transitions[i].updateCallbackDone = "resolved"
  /\ transitions[i].finished = "pending"
  /\ transitions' =
       IF transitions[i].ready = "pending"
         THEN [transitions EXCEPT ![i].ready = "resolved"]
         ELSE [transitions EXCEPT ![i].finished = "resolved"]
  /\ lastAnimate' = Step("platformSettle", platformCalls[i], i)
  /\ UNCHANGED <<platform, dom, platformCalls, managerVars, cssVars>>

NextAnimate ==
  \/ \E fn \in DomUpdateFns : Animate(fn)
  \/ \E i \in 1..Len(transitions) : SkipTransition(i)
  \/ \E i \in 1..Len(transitions) : PlatformUpdate(i)
  \/ \E i \in 1..Len(transitions) : PlatformSettle(i)

SpecAnimate == InitAnimate /\ [][NextAnimate]_vars

(***************************************************************************)
(* Properties of the transition group manager.                             *)
(***************************************************************************)
\* What a group writes on its members: its identifier as the transition-class and
\* the viewTransitionName of its construction options, 'match-element' without one.
ConstructionName(h) ==
  IF options[h]["viewTransitionName"] \in {Absent, Undefined}
    THEN "match-element"
    ELSE options[h]["viewTransitionName"][2]
GroupStyle(h) ==
  [viewTransitionClass |-> viewTransitionId[h], viewTransitionName |-> ConstructionName(h)]

Removal == {"removeElement", "removeElements", "cleanup"}

\* C1: a group's stylesheet occurs at most once in document.adoptedStyleSheets,
\* whatever calls were made.
C1_SheetAdoptedAtMostOnce ==
  \A h \in Handles : Occurrences(adoptedStyleSheets, h) <= 1

\* C2 as claimed: every member of a group carries the group's identifier both as
\* its transition-class and as its transition-name, and the elements a removeElement
\* or a cleanup removed carry two empty values.
C2_MembersCarryIdentifierTwice ==
  /\ \A h \in Handles : \A el \in els[h] :
       /\ style[el].viewTransitionClass = viewTransitionId[h]
       /\ style[el].viewTransitionName = viewTransitionId[h]
  /\ last.op \in Removal => \A el \in last.targets : style[el] = EmptyStyle

\* C2 as amended: every member of a group carries the group's identifier as its
\* transition-class and the group's construction-time viewTransitionName
\* ('match-element' by default) as its transition-name, unless another group wrote
\* the element since: then it carries the values of another group it is a member
\* of, or two empty values.  The elements a removeElement, removeElements or
\* cleanup call removed carry two empty values when the call returns.
C2_MembersCarryGroupStyle ==
  /\ \A h \in Handles : \A el \in els[h] :
       \/ style[el] = GroupStyle(h)
       \/ \E k \in Handles \ {h} :
            \/ style[el] = EmptyStyle
            \/ el \in els[k] /\ style[el] = GroupStyle(k)
  /\ last.op \in Removal => \A el \in last.targets : style[el] = EmptyStyle

\* Two groups share e1, which carries the second group's values, while e2 carries
\* the first group's, whose transition-name is not its identifier.
C2_Witness ==
  /\ Len(viewTransitionId) = 2
  /\ "e1" \in els[1] \cap els[2]
  /\ "e2" \in els[1]
  /\ style["e1"] = GroupStyle(2)
  /\ style["e2"] = GroupStyle(1)
  /\ GroupStyle(1).viewTransitionName # viewTransitionId[1]

\* The value a field has after the latest updateOptions: the partial's when it has
\* the field, else the construction options', else the default.
EffectiveOption(h, k) ==
  IF newOptions[h][k] # Absent THEN newOptions[h][k]
  ELSE IF options[h][k] # Absent THEN options[h][k]
  ELSE Defaults[k]

\* C3: the installed CSS is the CSS of the defaults overridden by the construction
\* options overridden by the latest partial alone; earlier partials leave no trace.
C3_LatestPartialOverConstructionOptions ==
  \A h \in Handles :
    styleSheet[h] =
      createTransitionCss(viewTransitionId[h], [k \in OptionKeys |-> EffectiveOption(h, k)])

\* A second updateOptions whose partial lacks the duration the first one set, on a
\* group constructed with a duration of its own: the construction value is back.
C3_Witness ==
  /\ last.op = "updateOptions"
  /\ options[last.h] = HeroOptions
  /\ last.replaced = DurationPartial
  /\ last.newOptions = DelayPartial
  /\ <<"animation-duration", "300ms">> \in Range(styleSheet[last.h][3].declarations)
  /\ <<"animation-delay", "100ms">> \in Range(styleSheet[last.h][3].declarations)

\* C4: right after cleanup the group's set is empty, every element it tracked has
\* two empty inline values and its stylesheet is nowhere in the adopted list.
C4_CleanupUndoesEverything ==
  last.op = "cleanup" =>
    /\ els[last.h] = {}
    /\ \A el \in last.targets : style[el] = EmptyStyle
    /\ \A i \in 1..Len(adoptedStyleSheets) : adoptedStyleSheets[i] # last.h

\* cleanup of a group that tracked both elements and whose sheet was adopted twice.
C4_Witness ==
  /\ last.op = "cleanup"
  /\ last.targets = Elements
  /\ last.copies >= 2

\* C5: removeElement(el) on an element outside the group's set changes neither the
\* set, nor the adopted list, nor any inline value.
C5_RemoveUntrackedChangesNothing ==
  [][(last'.op = "removeElement" /\ last'.targets \cap els[last'.h] = {})
       => UNCHANGED <<els, adoptedStyleSheets, style>>]_vars

\* C8: the identifiers of any two groups differ, cleaned up or not.
C8_IdentifiersPairwiseDistinct ==
  \A h1 \in Handles : \A h2 \in Handles :
    h1 # h2 => viewTransitionId[h1] # viewTransitionId[h2]

\* A group constructed after the first one was cleaned up.
C8_Witness ==
  /\ last.op = "createEnderView"
  /\ last.h = 2
  /\ \A i \in 1..Len(adoptedStyleSheets) : adoptedStyleSheets[i] # 1
  /\ viewTransitionId = <<"ender-view-transition-id-1", "ender-view-transition-id-2">>

Addition == {"addElement", "addElements"}

\* C11: updateOptions leaves every group's set, every element's inline
\* transition-name and transition-class, and the construction options and
\* identifiers unchanged; and the transition-name an addElement or addElements call
\* writes is the viewTransitionName of the construction options ('match-element'
\* without one), whatever viewTransitionName an updateOptions call supplied before.
C11_UpdateOptionsLeavesInlineNames ==
  [][/\ last'.op = "updateOptions" => UNCHANGED <<els, style, options, viewTransitionId>>
     /\ last'.op \in Addition =>
          \A el \in last'.targets :
            /\ style'[el].viewTransitionName = ConstructionName(last'.h)
            /\ style'[el].viewTransitionClass = viewTransitionId[last'.h]]_vars

\* An addElements call on a group constructed with the name 'hero', after an
\* updateOptions that supplied the name 'renamed' and whose duration is installed:
\* both elements carry 'hero'.
C11_Witness ==
  /\ last.op = "addElements"
  /\ last.targets = Elements
  /\ options[last.h] = HeroOptions
  /\ newOptions[last.h] = DurationPartial
  /\ <<"animation-duration", "500ms">> \in Range(styleSheet[last.h][3].declarations)
  /\ \A el \in Elements : style[el].viewTransitionName = "hero"
(***************************************************************************)
(* Properties of the transition trigger.                                   *)
(***************************************************************************)
CapabilityAbsent == ~(platform.document /\ platform.startViewTransition)

\* C6: without the platform capability, animate runs the callback (or the object's
\* update) exactly once before it returns, returns an object with no types and
\* three settled signals whose skipTransition changes nothing, and never calls
\* document.startViewTransition.
C6_FallbackRunsUpdateOnceAndReturnsSettledMock ==
  CapabilityAbsent =>
    /\ platformCalls = << >>
    /\ lastAnimate.op = "animate" =>
         /\ dom = Append(lastAnimate.before.dom, lastAnimate.arg.update)
         /\ Len(transitions) = Len(lastAnimate.before.transitions) + 1
         /\ transitions[lastAnimate.index].types = {}
         /\ transitions[lastAnimate.index].finished = "resolved"
         /\ transitions[lastAnimate.index].ready = "resolved"
         /\ transitions[lastAnimate.index].updateCallbackDone = "resolved"
    /\ lastAnimate.op = "skipTransition" =>
         /\ dom = lastAnimate.before.dom
         /\ transitions = lastAnimate.before.transitions

\* A second animate call, given an object with an update method, on a document
\* that has no startViewTransition.
C6_Witness ==
  /\ platform = [document |-> TRUE, startViewTransition |-> FALSE]
  /\ lastAnimate.op = "animate"
  /\ lastAnimate.arg.kind = "object"
  /\ Len(dom) = 2
  /\ dom[2] = lastAnimate.arg.update

(***************************************************************************)
(* Properties of the generated CSS.                                        *)
(***************************************************************************)
\* The caller's record the CSS was generated from, field by field: the partial's
\* field when it has one, else the construction options'.
Given(k) == IF cssPartial[k] # Absent THEN cssPartial[k] ELSE cssOptions[k]
\* The text of a number or of a string.
Text(v) == IF v[1] = "number" THEN ToString(v[2]) ELSE v[2]

BlocksWithPrelude(prelude) ==
  {i \in 1..Len(cssText) : cssText[i].prelude = prelude}
BlocksWithStep(step) ==
  {i \in 1..Len(cssText) :
     \E j \in 1..Len(cssText[i].declarations) : cssText[i].declarations[j][1] = step}
\* The declarations of the rule for the entering (new) or leaving (old) snapshot.
SideDeclarations(pseudo) ==
  cssText[CHOOSE i \in BlocksWithPrelude("::view-transition-" \o pseudo \o "(." \o CssId
                                          \o "):only-child") : TRUE].declarations
ValuesOf(declarations, property) ==
  {declarations[j][2] : j \in {m \in 1..Len(declarations) : declarations[m][1] = property}}
TimesDeclared(declarations, property) ==
  Cardinality({j \in 1..Len(declarations) : declarations[j][1] = property})

\* The value a group-level field is claimed to carry: the caller's when given.
ConcreteValue(k, default, unit) ==
  IF Given(k) \in {Absent, Undefined} THEN default \o unit ELSE Text(Given(k)) \o unit

\* C7: the generated CSS has exactly one group-level rule, whose delay, duration
\* and timing-function carry the caller's value when given and else the defaults
\* 0, 200 and 'ease-in-out', also for fields present with the value undefined.
C7_GroupRuleCarriesConcreteValues ==
  cssText # << >> =>
    /\ Cardinality(BlocksWithPrelude("::view-transition-group(." \o CssId \o ")")) = 1
    /\ \A i \in BlocksWithPrelude("::view-transition-group(." \o CssId \o ")") :
         cssText[i].declarations =
           << <<"animation-delay", ConcreteValue("delay", ToString(DefaultDelay), "ms")>>,
              <<"animation-duration",
                ConcreteValue("duration", ToString(DefaultDuration), "ms")>>,
              <<"animation-timing-function", ConcreteValue("easing", DefaultEasing, "")>> >>

\* A sub-property of enterProps / leaveProps that is present and truthy.
SubProperty(side, k) == Given(side)[2][k]
PresentAndTruthy(side, k) ==
  /\ Given(side)[1] = "object"
  /\ SubProperty(side, k) \notin {Absent, Undefined, Num(0), Str("")}

EmittedIffTruthy(pseudo, side, k, property, unit) ==
  IF PresentAndTruthy(side, k)
    THEN /\ TimesDeclared(SideDeclarations(pseudo), property) = 1
         /\ ValuesOf(SideDeclarations(pseudo), property) = {Text(SubProperty(side, k)) \o unit}
    ELSE TimesDeclared(SideDeclarations(pseudo), property) = 0

\* C9: in the enter rule and in the leave rule, animation-delay, animation-duration
\* and animation-timing-function are each declared exactly when the sub-property of
\* enterProps / leaveProps is present and truthy, and then with its value.
C9_SideDeclarationsIffTruthy ==
  cssText # << >> =>
    \A s \in {<<"new", "enterProps">>, <<"old", "leaveProps">>} :
      /\ EmittedIffTruthy(s[1], s[2], "delay", "animation-delay", "ms")
      /\ EmittedIffTruthy(s[1], s[2], "duration", "animation-duration", "ms")
      /\ EmittedIffTruthy(s[1], s[2], "easing", "animation-timing-function", "")

\* enterProps with a delay of 0, a duration of 400 and an empty easing: the enter
\* rule declares the name and the duration alone; leaveProps is missing.
C9_Witness ==
  /\ cssText # << >>
  /\ Given("enterProps")[1] = "object"
  /\ SubProperty("enterProps", "delay") = Num(0)
  /\ SubProperty("enterProps", "duration") = Num(400)
  /\ SubProperty("enterProps", "easing") = Str("")
  /\ Given("leaveProps") = Absent
  /\ Len(SideDeclarations("new")) = 2
  /\ SideDeclarations("new")[2] = <<"animation-duration", "400ms">>
  /\ Len(SideDeclarations("old")) = 1

\* C10: a keyframes block for enter (leave) is emitted exactly when enterCss
\* (leaveCss) is supplied, and its name is the animation-name the new (old) rule
\* declares: the caller's animationName when supplied, else the identifier with
\* the -enter (-leave) suffix.
KeyframesMatchRule(pseudo, side, css, step, suffix) ==
  /\ BlocksWithStep(step) # {} <=> Given(css) \notin {Absent, Undefined, Str("")}
  /\ \A i \in BlocksWithStep(step) :
       /\ ValuesOf(SideDeclarations(pseudo), "animation-name")
            = {IF PresentAndTruthy(side, "animationName")
                 THEN Text(SubProperty(side, "animationName"))
                 ELSE CssId \o suffix}
       /\ \A name \in ValuesOf(SideDeclarations(pseudo), "animation-name") :
            cssText[i].prelude = "@keyframes " \o name
C10_KeyframesNamedLikeAnimation ==
  cssText # << >> =>
    /\ KeyframesMatchRule("new", "enterProps", "enterCss", "from", "-enter")
    /\ KeyframesMatchRule("old", "leaveProps", "leaveCss", "to", "-leave")
====
